---- MODULE Spec2Model ----
(***************************************************************************)
(* Model of the quote API's persistence layer:                             *)
(*   - QuoteRepository  (filters, index, getRandomQuotes, getById,         *)
(*     update, createMultiple, delete)                                     *)
(*   - DeleteQuoteService.handle (delete + detach inside the global        *)
(*     transaction).                                                       *)
(*                                                                         *)
(* The database is a pair of tables: `rows` (the quotes) and `pivot` (the  *)
(* quote/tag associations).  A query is executed by the client that is     *)
(* resolved when the query is built: the process-wide global transaction   *)
(* when one is registered, an explicit transaction when one is passed,     *)
(* and otherwise the connection itself (auto-commit).                      *)
(*                                                                         *)
(* An asynchronous function runs without interruption up to each `await`;  *)
(* the steps of the model are these segments, each executing the database  *)
(* statement it issues.  db.beginGlobalTransaction(),                      *)
(* db.commitGlobalTransaction() and db.rollbackGlobalTransaction() are     *)
(* taken to have their effect at the call.  The promise of save() in       *)
(* update is not awaited: the UPDATE statement it issues is a separate     *)
(* step that happens at any later time.                                    *)
(*                                                                         *)
(* Strings are sequences of one-character strings.                         *)
(***************************************************************************)
EXTENDS Integers, Sequences, FiniteSets, TLC

\* ------------------------------------------------------------------ bounds
\* quotes in the table of the transactional specifications
NumQuotes == 2
\* concurrent invocations of DeleteQuoteService.handle
NumCalls == 2
\* save() promises of update that may be in flight together
MaxPendingSaves == 1

\* ------------------------------------------------------------- vocabulary
\* null as an entity, and undefined / null as a string
NULL == [kind |-> "null"]
Undefined == <<"undefined">>
NullStr == <<"null">>
NoError == "none"

E_ROW_NOT_FOUND == "E_ROW_NOT_FOUND"
E_DELETE == "E_DELETE_FAILED"
E_DETACH == "E_DETACH_FAILED"
E_TYPE == "TypeError"

TagNames == {<<"a">>, <<"b">>}

Procs == 1 .. NumCalls
CallIds == 1 .. (NumQuotes + 1)

BaseContent(i) == IF i % 2 = 1 THEN <<"a">> ELSE <<"b", "a">>
NewContents == {<<"b">>}

BaseRow(i) ==
  [id |-> i, content |-> BaseContent(i), author_id |-> 1, created_at |-> 1000 * i]

\* ------------------------------------------------------------------ state
VARIABLES
  committed,      \* the committed database: [rows, pivot]
  gtrx,           \* the global transaction: [open, work]
  calls,          \* one record per invocation of DeleteQuoteService.handle
  upd,            \* the invocation of QuoteRepository.update
  pendingSaves,   \* save() promises of update that have not settled
  unhandled,      \* a save() promise was rejected with nobody awaiting it
  result,         \* the outcome of the last repository read or bulk insert
  trx,            \* a transaction of the caller, passed as options.transaction
  autoInc         \* the next value of the quotes table's auto-increment id

vars == <<committed, gtrx, calls, upd, pendingSaves, unhandled, result, trx, autoInc>>

EmptyDb == [rows |-> {}, pivot |-> {}]

\* The client a query built now runs on (db.connection(): the global
\* transaction when one is registered).
View == IF gtrx.open THEN gtrx.work ELSE committed

Ids(db) == {r.id : r \in db.rows}

TagsOf(db, id) == {pr[2] : pr \in {x \in db.pivot : x[1] = id}}

\* ------------------------------------------------------ global transaction
beginGlobalTransaction(c, g) ==
  IF g.open THEN g ELSE [open |-> TRUE, work |-> c]

commitGlobalTransaction(c, g) ==
  IF g.open THEN [committed |-> g.work, gtrx |-> [open |-> FALSE, work |-> EmptyDb]]
            ELSE [committed |-> c, gtrx |-> g]

rollbackCommits(c, g) == commitGlobalTransaction(c, g)

rollbackGlobalTransaction(c, g) ==
  IF g.open THEN [committed |-> c, gtrx |-> [open |-> FALSE, work |-> EmptyDb]]
            ELSE [committed |-> c, gtrx |-> g]

\* A write statement runs on the client resolved when it is issued.
Write(db) ==
  IF gtrx.open
    THEN /\ gtrx' = [gtrx EXCEPT !.work = db]
         /\ committed' = committed
    ELSE /\ committed' = db
         /\ gtrx' = gtrx

\* ------------------------------------------------------------- repository
findOrFailNever == FALSE

\* getById's default for options.findOrFail
findOrFailDefault == TRUE

\* getById: the row, or NULL (first()), or the error of firstOrFail()
getById(db, id, findOrFail) ==
  LET found == {r \in db.rows : r.id = id}
  IN IF found # {}
       THEN [error |-> NoError, quote |-> CHOOSE r \in found : TRUE]
       ELSE IF findOrFail
              THEN [error |-> E_ROW_NOT_FOUND, quote |-> NULL]
              ELSE [error |-> NoError, quote |-> NULL]

\* quote.delete()
deleteRow(db, id) == [db EXCEPT !.rows = {r \in @ : r.id # id}]

detachKeepsPivot(db, id) == db

\* quote.related('tags').detach()
detach(db, id) == [db EXCEPT !.pivot = {pr \in @ : pr[1] # id}]

\* quote.merge({content: input.content ?? quote.content})
merge(quote, content) ==
  [quote EXCEPT !.content = IF content \in {Undefined, NullStr} THEN @ ELSE content]

\* the UPDATE statement of save()
saveRow(db, quote) ==
  [db EXCEPT !.rows = {IF r.id = quote.id THEN [r EXCEPT !.content = quote.content]
                                         ELSE r : r \in @}]

rethrowWrapped(error) == "E_HANDLE_FAILED"

\* catch (error) { ...; throw error }
rethrow(error) == error

\* ----------------------------------------------------------------- Init
IdleCall ==
  [pc |-> "idle", id |-> 0, quote |-> NULL, error |-> NoError, failedAt |-> "none",
   outcome |-> "pending", thrown |-> NoError, returned |-> NULL,
   trace |-> <<>>, preTags |-> {}]

IdleUpd ==
  [pc |-> "idle", id |-> 0, content |-> Undefined, quote |-> NULL, error |-> NoError,
   outcome |-> "pending", thrown |-> NoError, returned |-> NULL]

NoResult == [op |-> "none"]

NoTrx == [open |-> FALSE, work |-> EmptyDb]

\* Quote 1 carries every tag, quote 2 the tag "a", a quote beyond these none.
InitPivot ==
  {pr \in (1 .. NumQuotes) \X TagNames : pr[1] = 1 \/ (pr[1] = 2 /\ pr[2] = <<"a">>)}

InitDb == [rows |-> {BaseRow(i) : i \in 1 .. NumQuotes}, pivot |-> InitPivot]

Init ==
  /\ committed = InitDb
  /\ gtrx = NoTrx
  /\ calls = [p \in Procs |-> IdleCall]
  /\ upd = IdleUpd
  /\ pendingSaves = {}
  /\ unhandled = FALSE
  /\ result = NoResult
  /\ trx = NoTrx
  /\ autoInc = NumQuotes + 1

\* ------------------------------------------- DeleteQuoteService.handle
\* No request is in progress and no caller still holds a handle outcome.
Quiet == /\ \A q \in Procs : calls[q].pc = "idle"
         /\ upd.pc \in {"idle", "done"}

Throw(c, last) ==
  [c EXCEPT !.pc = "done", !.outcome = "threw", !.thrown = rethrow(c.error),
            !.trace = Append(@, last)]

\* handle, line 6 to the await of getById's query: the global transaction
\* is begun, repository().delete(id) is called and getById runs its SELECT.
HandleStart(p, id, alone) ==
  /\ calls[p].pc = "idle"
  /\ \A q \in Procs \ {p} : calls[q].pc = "idle" \/ calls[q].id # id
  /\ alone => Quiet
  /\ LET g == beginGlobalTransaction(committed, gtrx)
         got == getById(g.work, id, findOrFailDefault)
     IN /\ gtrx' = g
        /\ calls' = [calls EXCEPT ![p] =
             [@ EXCEPT !.pc = "getById", !.id = id, !.quote = got.quote,
                       !.error = got.error,
                       !.failedAt = IF got.error # NoError THEN "delete" ELSE "none",
                       !.trace = <<"begin", "delete">>,
                       !.preTags = TagsOf(committed, id)]]
  /\ UNCHANGED <<committed, upd, pendingSaves, unhandled, result, trx, autoInc>>

\* Catch block of handle: roll back, re-throw.
Catch(p) ==
  LET r == rollbackGlobalTransaction(committed, gtrx)
  IN /\ committed' = r.committed
     /\ gtrx' = r.gtrx
     /\ calls' = [calls EXCEPT ![p] = Throw(@, "rollback")]

\* delete, line 213: getById has settled; quote?.delete() runs its DELETE.
DeleteStep(p) ==
  /\ calls[p].pc = "getById"
  /\ IF calls[p].error # NoError
       THEN Catch(p)
       ELSE IF calls[p].quote = NULL
         THEN /\ calls' = [calls EXCEPT ![p] = [@ EXCEPT !.pc = "delete"]]
              /\ UNCHANGED <<committed, gtrx>>
         ELSE \/ /\ Write(deleteRow(View, calls[p].id))
                 /\ calls' = [calls EXCEPT ![p] = [@ EXCEPT !.pc = "delete"]]
              \/ /\ calls' = [calls EXCEPT ![p] =
                      [@ EXCEPT !.pc = "delete", !.error = E_DELETE,
                                !.failedAt = "delete"]]
                 /\ UNCHANGED <<committed, gtrx>>
  /\ UNCHANGED <<upd, pendingSaves, unhandled, result, trx, autoInc>>

\* handle, line 10: delete has settled; quote.related('tags').detach() runs.
DetachStep(p) ==
  /\ calls[p].pc = "delete"
  /\ IF calls[p].error # NoError
       THEN Catch(p)
       ELSE IF calls[p].quote = NULL
         THEN /\ calls' = [calls EXCEPT ![p] =
                  [@ EXCEPT !.pc = "detach", !.error = E_TYPE, !.failedAt = "detach"]]
              /\ UNCHANGED <<committed, gtrx>>
         ELSE \/ /\ Write(detach(View, calls[p].id))
                 /\ calls' = [calls EXCEPT ![p] =
                      [@ EXCEPT !.pc = "detach", !.trace = Append(@, "detach")]]
              \/ /\ calls' = [calls EXCEPT ![p] =
                      [@ EXCEPT !.pc = "detach", !.error = E_DETACH,
                                !.failedAt = "detach", !.trace = Append(@, "detach")]]
                 /\ UNCHANGED <<committed, gtrx>>
  /\ UNCHANGED <<upd, pendingSaves, unhandled, result, trx, autoInc>>

\* handle, lines 12-14 (commit, return) or 15-18 (catch).
HandleEnd(p) ==
  /\ calls[p].pc = "detach"
  /\ IF calls[p].error # NoError
       THEN Catch(p)
       ELSE LET r == commitGlobalTransaction(committed, gtrx)
            IN /\ committed' = r.committed
               /\ gtrx' = r.gtrx
               /\ calls' = [calls EXCEPT ![p] =
                    [@ EXCEPT !.pc = "done", !.outcome = "returned",
                              !.returned = calls[p].quote,
                              !.trace = Append(@, "commit")]]
  /\ UNCHANGED <<upd, pendingSaves, unhandled, result, trx, autoInc>>

\* ------------------------------------------------ QuoteRepository.update
\* update, line 183: getById runs its SELECT.
UpdateStart(id, content, alone) ==
  /\ upd.pc = "idle"
  /\ alone => Quiet
  /\ LET got == getById(View, id, findOrFailDefault)
     IN upd' = [IdleUpd EXCEPT !.pc = "getById", !.id = id, !.content = content,
                               !.quote = got.quote, !.error = got.error]
  /\ UNCHANGED <<committed, gtrx, calls, pendingSaves, unhandled, result, trx, autoInc>>

\* update, lines 185-191: merge, start save() without awaiting it, return.
UpdateReturn ==
  /\ upd.pc = "getById"
  /\ IF upd.error # NoError
       THEN /\ upd' = [upd EXCEPT !.pc = "done", !.outcome = "threw",
                                  !.thrown = upd.error]
            /\ UNCHANGED pendingSaves
       ELSE IF upd.quote = NULL
         THEN /\ upd' = [upd EXCEPT !.pc = "done", !.outcome = "returned"]
              /\ UNCHANGED pendingSaves
         ELSE LET merged == merge(upd.quote, upd.content)
              IN /\ Cardinality(pendingSaves \cup {merged}) <= MaxPendingSaves
                 /\ pendingSaves' = pendingSaves \cup {merged}
                 /\ upd' = [upd EXCEPT !.pc = "done", !.outcome = "returned",
                                       !.returned = merged]
  /\ UNCHANGED <<committed, gtrx, calls, unhandled, result, trx, autoInc>>

\* The UPDATE of a save() settles: it is applied, or it fails and the
\* rejection reaches nobody.
SaveSettles(q) ==
  /\ q \in pendingSaves
  /\ pendingSaves' = pendingSaves \ {q}
  /\ \/ /\ Write(saveRow(View, q))
        /\ UNCHANGED unhandled
     \/ /\ unhandled' = TRUE
        /\ UNCHANGED <<committed, gtrx>>
  /\ UNCHANGED <<calls, upd, result, trx, autoInc>>

\* The caller has consumed the outcome of a finished request.
Forget(p) ==
  /\ calls[p].pc = "done"
  /\ calls' = [calls EXCEPT ![p] = IdleCall]
  /\ UNCHANGED <<committed, gtrx, upd, pendingSaves, unhandled, result, trx, autoInc>>

ForgetUpdate ==
  /\ upd.pc = "done"
  /\ upd' = IdleUpd
  /\ UNCHANGED <<committed, gtrx, calls, pendingSaves, unhandled, result, trx, autoInc>>

\* ----------------------------------------------------------- specifications
UpdContents == NewContents \cup {Undefined}

Steps ==
  \/ \E p \in Procs : DeleteStep(p)
  \/ \E p \in Procs : DetachStep(p)
  \/ \E p \in Procs : HandleEnd(p)
  \/ UpdateReturn
  \/ \E q \in pendingSaves : SaveSettles(q)
  \/ \E p \in Procs : Forget(p)
  \/ ForgetUpdate

\* NumCalls invocations of handle and one of update, which may overlap.
Next ==
  \/ \E p \in Procs, id \in CallIds : HandleStart(p, id, FALSE)
  \/ \E id \in CallIds, c \in UpdContents : UpdateStart(id, c, FALSE)
  \/ \E p \in Procs : DeleteStep(p)
  \/ \E p \in Procs : DetachStep(p)
  \/ \E p \in Procs : HandleEnd(p)
  \/ UpdateReturn
  \/ \E q \in pendingSaves : SaveSettles(q)

Spec == Init /\ [][Next]_vars

\* Any number of requests, one at a time (save() promises still float).
SeqNext ==
  \/ \E id \in CallIds : HandleStart(1, id, TRUE)
  \/ \E id \in CallIds, c \in UpdContents : UpdateStart(id, c, TRUE)
  \/ Steps

SeqSpec == Init /\ [][SeqNext]_vars

\* ================================================================ queries
\* bounds of the query specification
\* quotes in the table of the query specification
QNumRows == 4
\* longest tag filter string
MaxTagsLen == 3
\* largest limit asked of getRandomQuotes
MaxLimit == 3
\* longest list given to createMultiple
MaxInsert == 2
\* largest length bound asked of filterLength
MaxLengthArg == 3

\* undefined / null / a number, for the optional numeric inputs
UndefinedNum == [kind |-> "undefined"]
Num(n) == [kind |-> "number", value |-> n]

ASC == "asc"
DESC == "desc"

Alphabet == <<"a", "b", "c", ",", "|">>

Rank(ch) == CHOOSE i \in 1 .. Len(Alphabet) : Alphabet[i] = ch

Min(a, b) == IF a <= b THEN a ELSE b

\* The authors table (a collaborator of the repository).
AuthorOf(author_id) ==
  IF author_id = 1 THEN [name |-> <<"k">>, slug |-> <<"k", "1">>]
                   ELSE [name |-> <<"m">>, slug |-> <<"m", "2">>]

\* Rows of the query table: contents of length 0 to 2 in no particular
\* order, timestamps in whole seconds with a tie, and every combination of
\* the two tags.
QContent(i) ==
  CASE i % 4 = 1 -> <<"b">>
    [] i % 4 = 2 -> <<"a", "b">>
    [] i % 4 = 3 -> <<>>
    [] OTHER     -> IF i = 4 THEN <<"a">> ELSE <<"b", "b">>

QRow(i) ==
  [id |-> i, content |-> QContent(i), author_id |-> 1 + (i % 2),
   created_at |-> 1000 * (1 + ((i * 2) % 3))]

QTags(i) ==
  CASE i % 4 = 1 -> {<<"a">>, <<"b">>}
    [] i % 4 = 2 -> {<<"a">>}
    [] i % 4 = 3 -> {}
    [] OTHER     -> {<<"b">>}

QueryDb ==
  [rows |-> {QRow(i) : i \in 1 .. QNumRows},
   pivot |-> {pr \in (1 .. QNumRows) \X TagNames : pr[2] \in QTags(pr[1])}]

\* CURRENT_TIMESTAMP of a row inserted by createMultiple
InsertTime == 4000

\* ------------------------------------------------------------ JS strings
\* String.prototype.includes for a one-character needle
includes(str, ch) == \E i \in 1 .. Len(str) : str[i] = ch

\* String.prototype.split for a one-character separator
RECURSIVE splitFrom(_, _, _)
splitFrom(str, sep, cur) ==
  IF str = <<>> THEN <<cur>>
  ELSE IF Head(str) = sep
    THEN <<cur>> \o splitFrom(Tail(str), sep, <<>>)
    ELSE splitFrom(Tail(str), sep, Append(cur, Head(str)))

split(str, sep) == splitFrom(str, sep, <<>>)

\* String.prototype.localeCompare: -1, 0 or 1
RECURSIVE localeCompare(_, _)
localeCompare(x, y) ==
  IF x = <<>> /\ y = <<>> THEN 0
  ELSE IF x = <<>> THEN -1
  ELSE IF y = <<>> THEN 1
  ELSE IF Rank(Head(x)) < Rank(Head(y)) THEN -1
  ELSE IF Rank(Head(x)) > Rank(Head(y)) THEN 1
  ELSE localeCompare(Tail(x), Tail(y))

\* DateTime.toUnixInteger: whole seconds of a time kept in milliseconds
toUnixInteger(ms) == ms \div 1000

\* ---------------------------------------------------------------- filters
\* A query is the sequence of its where clauses.
filterLengthTruthy(query, length, direction) ==
  IF length.kind = "number" /\ length.value # 0
    THEN Append(query, [kind |-> "length", direction |-> direction, n |-> length.value])
    ELSE query

filterLength(query, length, direction) ==
  IF length # UndefinedNum /\ length # NULL
    THEN Append(query, [kind |-> "length", direction |-> direction, n |-> length.value])
    ELSE query

filterAuthor(query, author) ==
  IF author # Undefined /\ author # NullStr
    THEN Append(query, [kind |-> "author", author |-> author])
    ELSE query

filterTagsCommaOnly(query, tags) ==
  IF tags = Undefined \/ tags = NullStr THEN query
  ELSE LET tagsList == split(tags, ",")
       IN query \o [i \in 1 .. Len(tagsList) |->
                      [kind |-> "tags", anyOf |-> <<tagsList[i]>>]]

filterTags(query, tags) ==
  IF tags = Undefined \/ tags = NullStr THEN query
  ELSE IF includes(tags, "|")
    THEN LET tagsList == split(tags, "|")
         IN Append(query, [kind |-> "tags", anyOf |-> tagsList])
    ELSE LET tagsList == split(tags, ",")
         IN query \o [i \in 1 .. Len(tagsList) |->
                        [kind |-> "tags", anyOf |-> <<tagsList[i]>>]]

\* the tokens of a search: split(/[\s,;]+/)
RECURSIVE tokens(_, _)
tokens(str, cur) ==
  IF str = <<>> THEN <<cur>>
  ELSE IF Head(str) \in {" ", ",", ";"}
    THEN IF Tail(str) # <<>> /\ Head(Tail(str)) \in {" ", ",", ";"}
           THEN tokens(Tail(str), cur)
           ELSE <<cur>> \o tokens(Tail(str), <<>>)
    ELSE tokens(Tail(str), Append(cur, Head(str)))

queryContent(query, search) ==
  IF search = Undefined \/ search = NullStr THEN query
  ELSE Append(query, [kind |-> "match", keywords |-> tokens(search, <<>>)])

\* One where clause, on one row.
Holds(db, row, w) ==
  CASE w.kind = "length" ->
         IF w.direction = ">=" THEN Len(row.content) >= w.n
                               ELSE Len(row.content) <= w.n
    [] w.kind = "author" ->
         \/ AuthorOf(row.author_id).name = w.author
         \/ AuthorOf(row.author_id).slug = w.author
    [] w.kind = "tags" ->
         \E t \in TagsOf(db, row.id) : \E i \in 1 .. Len(w.anyOf) : w.anyOf[i] = t
    [] OTHER ->
         \E i \in 1 .. Len(w.keywords) :
           /\ Len(w.keywords[i]) <= Len(row.content)
           /\ SubSeq(row.content, 1, Len(w.keywords[i])) = w.keywords[i]

\* The rows a query selects.
Select(db, query) ==
  {r \in db.rows : \A i \in 1 .. Len(query) : Holds(db, r, query[i])}

\* The sequences of n distinct elements of S.
RECURSIVE Samples(_, _)
Samples(S, n) ==
  IF n = 0 THEN {<<>>}
  ELSE UNION {{<<x>> \o t : t \in Samples(S \ {x}, n - 1)} : x \in S}

\* ------------------------------------------------------------------ sort
\* a[input.sortBy]
Field(a, sortBy) ==
  CASE sortBy = "id" -> a.id
    [] sortBy = "author_id" -> a.author_id
    [] sortBy = "content" -> a.content
    [] OTHER -> a.created_at

compareNoDirection(a, b, sortBy, order) ==
  LET first == Field(a, sortBy)
      second == Field(b, sortBy)
  IN IF sortBy = "created_at" THEN toUnixInteger(first) - toUnixInteger(second)
     ELSE IF sortBy = "content" THEN localeCompare(first, second)
     ELSE first - second

\* the comparator given to quotes.sort
compare(a, b, sortBy, order) ==
  LET first == Field(a, sortBy)
      second == Field(b, sortBy)
      comparison ==
        IF sortBy = "created_at" THEN toUnixInteger(first) - toUnixInteger(second)
        ELSE IF sortBy = "content" THEN localeCompare(first, second)
        ELSE first - second
  IN IF order = ASC THEN comparison ELSE 0 - comparison

\* Array.prototype.sort (stable): x goes after the last element not above it.
RECURSIVE insertSorted(_, _, _, _)
insertSorted(sorted, x, sortBy, order) ==
  IF sorted = <<>> THEN <<x>>
  ELSE IF compare(sorted[Len(sorted)], x, sortBy, order) <= 0
    THEN Append(sorted, x)
    ELSE Append(insertSorted(SubSeq(sorted, 1, Len(sorted) - 1), x, sortBy, order),
                sorted[Len(sorted)])

RECURSIVE sort(_, _, _)
sort(quotes, sortBy, order) ==
  IF quotes = <<>> THEN <<>>
  ELSE insertSorted(sort(SubSeq(quotes, 1, Len(quotes) - 1), sortBy, order),
                    quotes[Len(quotes)], sortBy, order)

\* ORDER BY of the database: the selected rows in an order the comparator
\* accepts (ties in any order).
RECURSIVE Ordered(_, _, _)
Ordered(rows, sortBy, order) ==
  IF rows = {} THEN {<<>>}
  ELSE LET first == {m \in rows : \A r \in rows : compare(m, r, sortBy, order) <= 0}
       IN UNION {{<<m>> \o t : t \in Ordered(rows \ {m}, sortBy, order)} : m \in first}

\* paginate(page, limit)
paginate(ordered, page, limit) ==
  SubSeq(ordered, (page - 1) * limit + 1, Min(page * limit, Len(ordered)))

\* ------------------------------------------------------------ repository
BuildIndex(input) ==
  filterTags(
    filterAuthor(
      filterLength(
        filterLength(<<>>, input.minLength, ">="),
        input.maxLength, "<="),
      input.author),
    input.tags)

\* index
Index(input) ==
  /\ result = NoResult
  /\ \E ordered \in Ordered(Select(View, BuildIndex(input)), input.sortBy, input.order) :
       result' = [op |-> "index", input |-> input,
                  rows |-> paginate(ordered, input.page, input.limit)]
  /\ UNCHANGED <<committed, gtrx, calls, upd, pendingSaves, unhandled, trx, autoInc>>

\* getRandomQuotes: ORDER BY RAND() LIMIT n, then the in-memory sort
GetRandomQuotes(input) ==
  /\ result = NoResult
  /\ LET matching == Select(View, queryContent(BuildIndex(input), input.query))
     IN \E quotes \in Samples(matching, Min(input.limit, Cardinality(matching))) :
          result' = [op |-> "getRandomQuotes", input |-> input,
                     rows |-> sort(quotes, input.sortBy, input.order)]
  /\ UNCHANGED <<committed, gtrx, calls, upd, pendingSaves, unhandled, trx, autoInc>>

RECURSIVE multiInsertFirstOnly(_, _, _)
multiInsertFirstOnly(db, input, next) ==
  IF input = <<>> THEN db
  ELSE [db EXCEPT !.rows = @ \cup
          {[id |-> next, content |-> input[1].content,
            author_id |-> input[1].author_id, created_at |-> InsertTime]}]

\* multiInsert(input): one row per element, ids from the auto-increment
RECURSIVE multiInsert(_, _, _)
multiInsert(db, input, next) ==
  IF input = <<>> THEN db
  ELSE multiInsert(
         [db EXCEPT !.rows = @ \cup
            {[id |-> next, content |-> Head(input).content,
              author_id |-> Head(input).author_id, created_at |-> InsertTime]}],
         Tail(input), next + 1)

\* whereIn('content', contents)
whereInContent(db, contents) == {r \in db.rows : r.content \in contents}

\* createMultiple, with options.transaction (the caller's open transaction)
\* or without it
CreateMultiple(input, withTransaction) ==
  /\ result = NoResult
  /\ autoInc + Len(input) <= QNumRows + MaxInsert + 1
  /\ withTransaction => trx.open
  /\ LET before == IF withTransaction THEN trx.work ELSE View
         after == multiInsert(before, input, autoInc)
     IN /\ IF withTransaction
             THEN /\ trx' = [trx EXCEPT !.work = after]
                  /\ UNCHANGED <<committed, gtrx>>
             ELSE /\ Write(after)
                  /\ UNCHANGED trx
        /\ result' = [op |-> "createMultiple", input |-> input,
                      withTransaction |-> withTransaction,
                      before |-> before.rows, after |-> after.rows,
                      rows |-> whereInContent(after,
                                 {input[i].content : i \in 1 .. Len(input)})]
  /\ autoInc' = autoInc + Len(input)
  /\ UNCHANGED <<calls, upd, pendingSaves, unhandled>>

\* The caller of createMultiple opens, commits or rolls back the
\* transaction it passes.
TransactionBegin ==
  /\ ~trx.open
  /\ trx' = [open |-> TRUE, work |-> committed]
  /\ UNCHANGED <<committed, gtrx, calls, upd, pendingSaves, unhandled, result, autoInc>>

TransactionEnd(commit) ==
  /\ trx.open
  /\ trx' = NoTrx
  /\ committed' = IF commit THEN trx.work ELSE committed
  /\ UNCHANGED <<gtrx, calls, upd, pendingSaves, unhandled, result, autoInc>>

\* The caller has taken the result of its request.
Respond ==
  /\ result # NoResult
  /\ result' = NoResult
  /\ UNCHANGED <<committed, gtrx, calls, upd, pendingSaves, unhandled, trx, autoInc>>

\* ------------------------------------------------------------------ inputs
Strings(chars, n) == UNION {[1 .. k -> chars] : k \in 0 .. n}

OptNums == {UndefinedNum, NULL} \cup {Num(n) : n \in 0 .. MaxLengthArg}

TagFilters == {Undefined, NullStr} \cup Strings({"a", "b", ",", "|"}, MaxTagsLen)

SortFields == {"id", "author_id", "content", "created_at"}

WholeTable == QNumRows + MaxInsert

BaseInput ==
  [minLength |-> UndefinedNum, maxLength |-> UndefinedNum, author |-> Undefined,
   tags |-> Undefined, query |-> Undefined, sortBy |-> "id", order |-> ASC,
   page |-> 1, limit |-> WholeTable]

\* index is asked with every pair of length bounds, with every tag filter,
\* and with every sort and page.
IndexInputs ==
  {[BaseInput EXCEPT !.minLength = lo, !.maxLength = hi] : lo \in OptNums, hi \in OptNums}
  \cup {[BaseInput EXCEPT !.tags = t] : t \in TagFilters}
  \cup {[BaseInput EXCEPT !.author = a, !.sortBy = f, !.order = o, !.page = pg, !.limit = 2] :
          a \in {Undefined, NullStr, <<"k">>, <<"m", "2">>},
          f \in SortFields, o \in {ASC, DESC}, pg \in 1 .. 2}

RandomFilters ==
  {BaseInput,
   [BaseInput EXCEPT !.minLength = Num(1)],
   [BaseInput EXCEPT !.maxLength = Num(1), !.tags = <<"a", "|", "b">>],
   [BaseInput EXCEPT !.tags = <<"a", ",", "b">>],
   [BaseInput EXCEPT !.author = <<"k">>, !.query = NullStr]}

RandomInputs ==
  {[b EXCEPT !.sortBy = f, !.order = o, !.limit = n] :
     b \in RandomFilters, f \in SortFields, o \in {ASC, DESC}, n \in 0 .. MaxLimit}

NewQuotes ==
  {[content |-> c, author_id |-> 1] : c \in {<<"c">>, <<"c", "c">>, <<"a">>}}

InsertInputs == UNION {[1 .. k -> NewQuotes] : k \in 0 .. MaxInsert}

\* ------------------------------------------------------ query specification
QueryInit ==
  /\ committed = QueryDb
  /\ gtrx = NoTrx
  /\ calls = [p \in Procs |-> IdleCall]
  /\ upd = IdleUpd
  /\ pendingSaves = {}
  /\ unhandled = FALSE
  /\ result = NoResult
  /\ trx = NoTrx
  /\ autoInc = QNumRows + 1

\* The reads of the repository.
QueryNext ==
  \/ \E input \in IndexInputs : Index(input)
  \/ \E input \in RandomInputs : GetRandomQuotes(input)
  \/ Respond

QuerySpec == QueryInit /\ [][QueryNext]_vars

\* createMultiple, inside and outside a transaction of the caller.
InsertNext ==
  \/ \E input \in InsertInputs, t \in BOOLEAN : CreateMultiple(input, t)
  \/ TransactionBegin
  \/ \E commit \in BOOLEAN : TransactionEnd(commit)
  \/ Respond

InsertSpec == QueryInit /\ [][InsertNext]_vars

\* ------------------------------------------------------------------ claims
Done(p) == calls[p].pc = "done"

Found(db, id) == getById(db, id, FALSE).quote # NULL

HandleTraces ==
  { <<"begin", "delete", "rollback">>,
    <<"begin", "delete", "detach", "rollback">>,
    <<"begin", "delete", "detach", "commit">> }

IsPrefix(s, t) == Len(s) <= Len(t) /\ SubSeq(t, 1, Len(s)) = s

\* C3: every call of handle begins the transaction, deletes, detaches and
\* then ends the transaction once: it commits only when delete and detach
\* both succeeded, and otherwise rolls back, never commits, and throws the
\* very error the failing step raised.
C3_HandleProtocol ==
  \A p \in Procs :
    /\ calls[p].pc # "idle" => \E t \in HandleTraces : IsPrefix(calls[p].trace, t)
    /\ Done(p) =>
         /\ calls[p].trace \in HandleTraces
         /\ ~gtrx.open
         /\ calls[p].outcome = "returned" =>
              /\ calls[p].error = NoError
              /\ calls[p].trace[Len(calls[p].trace)] = "commit"
         /\ calls[p].outcome # "returned" =>
              /\ calls[p].outcome = "threw"
              /\ calls[p].error # NoError
              /\ calls[p].thrown = calls[p].error
              /\ calls[p].trace[Len(calls[p].trace)] = "rollback"

C3_Witness ==
  \E p \in Procs :
    /\ Done(p) /\ calls[p].outcome = "threw" /\ calls[p].thrown = E_DELETE
    /\ calls[p].trace = <<"begin", "delete", "rollback">>

\* The id given to update / delete matched no quote.
UpdateMissed == upd.pc = "done" /\ upd.quote = NULL
DeleteMissed(p) == calls[p].pc \in {"delete", "detach", "done"} /\ calls[p].quote = NULL

\* C8 as stated: update and delete with an id that matches no quote raise
\* no not-found error and hand the null result back to the caller.
C8_SilentNoOp ==
  /\ UpdateMissed => (upd.outcome = "returned" /\ upd.returned = NULL)
  /\ \A p \in Procs : DeleteMissed(p) => calls[p].error = NoError

\* C8 amended: update and delete with an id that matches no quote fail with
\* the row-not-found error of getById, change no row, start no save and
\* return nothing.
C8_MissingIdThrows ==
  [][ /\ (upd.pc = "getById" /\ upd.quote = NULL /\ upd'.pc = "done")
         => /\ upd'.outcome = "threw" /\ upd'.thrown = E_ROW_NOT_FOUND
            /\ upd'.returned = NULL
            /\ committed' = committed /\ gtrx' = gtrx
            /\ pendingSaves' = pendingSaves
      /\ \A p \in Procs :
           (calls[p].pc = "getById" /\ calls[p].quote = NULL /\ calls'[p].pc # "getById")
             => /\ calls[p].error = E_ROW_NOT_FOUND
                /\ calls'[p].thrown = E_ROW_NOT_FOUND
                /\ committed' = committed ]_vars

C8_Witness ==
  /\ UpdateMissed /\ upd.thrown = E_ROW_NOT_FOUND
  /\ \E p \in Procs : Done(p) /\ calls[p].quote = NULL
                      /\ calls[p].thrown = E_ROW_NOT_FOUND

\* C9: when update(id, input) with a content returns for an existing quote,
\* a lookup of id sees the new content, and no failure of the save goes
\* unreported.
C9_UpdatePersistedOnReturn ==
  (upd.pc = "done" /\ upd.outcome = "returned" /\ upd.quote # NULL
     /\ upd.content \notin {Undefined, NullStr})
    => /\ \A r \in View.rows : r.id = upd.id => r.content = upd.content
       /\ ~unhandled

\* C10: of two overlapping handle calls on different quotes, one that has
\* returned has its deletion and its detachment committed, and one that has
\* thrown has neither applied.
C10_ConcurrentAtomicity ==
  \A p \in Procs :
    (Done(p) /\ \A q \in Procs : calls[q].pc # "idle" => calls[q].quote # NULL) =>
      /\ calls[p].outcome = "returned" =>
           /\ calls[p].id \notin Ids(committed)
           /\ TagsOf(committed, calls[p].id) = {}
      /\ calls[p].outcome = "threw" =>
           /\ calls[p].id \in Ids(committed)
           /\ TagsOf(committed, calls[p].id) = calls[p].preTags

\* ---------------------------------------------------- claims on the queries
RowSet(rows) == {rows[i] : i \in 1 .. Len(rows)}

\* The names listed in a filter string: its maximal pieces free of sep.
Listed(str, sep) ==
  {SubSeq(str, i, j) : <<i, j>> \in
     {ij \in (1 .. Len(str) + 1) \X (0 .. Len(str)) :
        /\ ij[2] >= ij[1] - 1
        /\ ij[1] = 1 \/ str[ij[1] - 1] = sep
        /\ ij[2] = Len(str) \/ str[ij[2] + 1] = sep
        /\ \A k \in ij[1] .. ij[2] : str[k] # sep}}

Absent(x) == x \in {Undefined, NullStr}

TagsWanted(db, row, tags) ==
  \/ Absent(tags)
  \/ /\ ~Absent(tags) /\ includes(tags, "|")
     /\ \E name \in Listed(tags, "|") : name \in TagsOf(db, row.id)
  \/ /\ ~Absent(tags) /\ ~includes(tags, "|")
     /\ \A name \in Listed(tags, ",") : name \in TagsOf(db, row.id)

LengthWanted(row, lo, hi) ==
  /\ lo.kind = "number" => lo.value <= Len(row.content)
  /\ hi.kind = "number" => Len(row.content) <= hi.value

AuthorWanted(row, author) ==
  \/ Absent(author)
  \/ AuthorOf(row.author_id).name = author
  \/ AuthorOf(row.author_id).slug = author

Wanted(db, row, input) ==
  /\ LengthWanted(row, input.minLength, input.maxLength)
  /\ AuthorWanted(row, input.author)
  /\ TagsWanted(db, row, input.tags)

\* index asked for the whole table in one page
WholePage(r) == r.op = "index" /\ r.input.page = 1 /\ r.input.limit >= WholeTable

\* C4: a comma-separated tag filter (no pipe) selects exactly the quotes
\* that carry all the listed names, a pipe-separated one exactly those that
\* carry at least one of them, and an absent filter selects every quote.
C4_TagFilter ==
  (WholePage(result) /\ result.input.minLength = UndefinedNum
     /\ result.input.maxLength = UndefinedNum /\ result.input.author = Undefined)
    => RowSet(result.rows) = {r \in View.rows : TagsWanted(View, r, result.input.tags)}

C4_Witness ==
  /\ WholePage(result)
  /\ result.input.tags = <<"a", "|", "b">>
  /\ {r.id : r \in RowSet(result.rows)} = {1, 2, 4}

\* C7: index returns only quotes whose content length lies between
\* minLength and maxLength, both inclusive and 0 included; an undefined or
\* null bound does not restrict its side.
C7_LengthFilter ==
  result.op = "index" =>
    /\ \A r \in RowSet(result.rows) :
         LengthWanted(r, result.input.minLength, result.input.maxLength)
    /\ (WholePage(result) /\ Absent(result.input.tags) /\ Absent(result.input.author))
         => RowSet(result.rows) =
              {r \in View.rows :
                 LengthWanted(r, result.input.minLength, result.input.maxLength)}

C7_Witness ==
  /\ WholePage(result)
  /\ result.input.minLength = NULL
  /\ result.input.maxLength = Num(0)
  /\ {r.id : r \in RowSet(result.rows)} = {3}

\* x is not after y in dictionary order
LexLeq(x, y) ==
  \/ Len(x) <= Len(y) /\ SubSeq(y, 1, Len(x)) = x
  \/ \E k \in 1 .. Min(Len(x), Len(y)) :
       /\ SubSeq(x, 1, k - 1) = SubSeq(y, 1, k - 1)
       /\ Rank(x[k]) < Rank(y[k])

KeyLeq(a, b, sortBy) ==
  CASE sortBy = "id" -> a.id <= b.id
    [] sortBy = "author_id" -> a.author_id <= b.author_id
    [] sortBy = "created_at" -> a.created_at <= b.created_at
    [] OTHER -> LexLeq(a.content, b.content)

\* C6: getRandomQuotes with limit N returns min(N, matches) distinct rows,
\* every one matching the filters, ordered by the sortBy field in the asked
\* direction.
C6_RandomQuotes ==
  result.op = "getRandomQuotes" =>
    LET rows == result.rows
        input == result.input
        matching == {r \in View.rows : Wanted(View, r, input)}
    IN /\ Len(rows) = Min(input.limit, Cardinality(matching))
       /\ RowSet(rows) \subseteq matching
       /\ Cardinality(RowSet(rows)) = Len(rows)
       /\ \A i \in 1 .. (Len(rows) - 1) :
            IF input.order = ASC THEN KeyLeq(rows[i], rows[i + 1], input.sortBy)
                                 ELSE KeyLeq(rows[i + 1], rows[i], input.sortBy)

C6_Witness ==
  /\ result.op = "getRandomQuotes"
  /\ result.input.order = DESC /\ result.input.sortBy = "content"
  /\ result.input.limit = 3 /\ result.input.minLength = Num(1)
  /\ Len(result.rows) = 3
  /\ result.rows[1].content = <<"b">>

\* C5: createMultiple with M quotes whose contents are not in the table
\* inserts exactly M rows and returns exactly these rows, with and without
\* a transaction passed.
C5_CreateMultiple ==
  (result.op = "createMultiple"
     /\ \A i \in 1 .. Len(result.input) :
          \A r \in result.before : r.content # result.input[i].content)
    => LET new == result.after \ result.before
       IN /\ result.before \subseteq result.after
          /\ Cardinality(new) = Len(result.input)
          /\ result.rows = new
          /\ \A q \in NewQuotes :
               Cardinality({r \in new : r.content = q.content /\ r.author_id = q.author_id})
                 = Cardinality({i \in 1 .. Len(result.input) : result.input[i] = q})

C5_Witness ==
  /\ result.op = "createMultiple"
  /\ result.withTransaction
  /\ Len(result.input) = 2
  /\ result.input[1].content = <<"c">> /\ result.input[2].content = <<"c", "c">>
  /\ Cardinality(result.rows) = 2
  /\ trx.open /\ trx.work.rows = result.after

C5_WitnessNoTransaction ==
  /\ result.op = "createMultiple"
  /\ ~result.withTransaction
  /\ Len(result.input) = 2
  /\ Cardinality(result.rows) = 2
  /\ committed.rows = result.after

====
